---- MODULE Spec2Model ----
(***************************************************************************)
(* The session controller of the Gemini research agent (mcp-server/        *)
(* server.py): research_topic and the helpers it drives                    *)
(* (generate_search_queries, perform_web_search, reflect_on_research,      *)
(* finalize_research_answer), the ResearchState budget accounting and the  *)
(* registry active_research_sessions.                                      *)
(*                                                                         *)
(* A call of research_topic is an asyncio task.  The only await that       *)
(* really suspends is asyncio.sleep in the backoff of perform_web_search;  *)
(* the language-model and search collaborators are blocking calls whose    *)
(* outcome (a value, or an exception) is chosen by the environment.        *)
(***************************************************************************)
EXTENDS Integers, Sequences, FiniteSets, TLC

(***************************************************************************)
(* Bounds of the model.                                                    *)
(***************************************************************************)
\* Failed search-collaborator attempts the environment may produce in one call.
MaxFailures == 3
\* Results in the history a helper is called with directly.
MaxHistory == 3
\* Queries in a list, and failed search attempts, of a call that runs
\* while another call does.
MaxConcurrentQueries == 2
MaxConcurrentFailures == 1

(***************************************************************************)
(* Program constants.                                                      *)
(***************************************************************************)
EFFORT_TIERS ==
    [low    |-> [max_searches |-> 10,   max_research_loops |-> 1, initial_queries |-> 2],
     medium |-> [max_searches |-> 100,  max_research_loops |-> 3, initial_queries |-> 4],
     high   |-> [max_searches |-> 1000, max_research_loops |-> 5, initial_queries |-> 6]]

Efforts == {"low", "medium", "high"}

\* SearchQuery.query: Field(min_length=1, max_length=500)
MinQueryLength == 1
MaxQueryLength == 500
\* SearchQueryList.queries: Field(min_items=1, max_items=10)
MinQueryItems == 1
MaxQueryItems == 10
\* ResearchReflection.follow_up_queries: Field(max_items=5)
MaxFollowUpItems == 5
\* perform_web_search(..., max_retries: int = 3)
DefaultMaxRetries == 3
\* reflection.confidence_score > 0.8, in hundredths
ConfidenceThreshold == 80
\* len(" recent developments"), the suffix of the second fallback query
RecentSuffixLength == 20
\* len(" additional information"), the suffix of the reflection fallback query
AdditionalSuffixLength == 23

(***************************************************************************)
(* Values.                                                                 *)
(***************************************************************************)
Calls == {"c1", "c2"}

\* The calls a caller makes in the runs of one call at a time.
IssuedCalls == {"c1"}

NoValue == "none"

\* A topic string, by its shape: `lead` and `trail` whitespace characters
\* around a core of `core` characters that starts and ends with a
\* non-whitespace character (core = 0: no such character at all).
Topic(lead, core, trail) == [lead |-> lead, core |-> core, trail |-> trail]

Topics ==
    { Topic(0, 0, 0),       \* ""
      Topic(2, 0, 0),       \* "  "
      Topic(0, 2, 0),       \* "ai"
      Topic(1, 2, 1),       \* " ai "
      Topic(0, 490, 0) }    \* a topic of 490 characters

TopicLength(t) == t.lead + t.core + t.trail

\* str.strip()
Strip(t) == Topic(0, t.core, 0)

\* A query string: where it comes from, its position in the list it came
\* in, and its length.
Query(kind, i, len) == [kind |-> kind, i |-> i, len |-> len]

\* The exception the search collaborator raises in attempt number `attempt`
\* of one perform_web_search call: every attempt raises an exception of its own.
SearchError(attempt) == << "search_error", attempt >>

\* Confidence scores the reflection collaborator reports, in hundredths.
Confidences == {0, 50, 80, 95}

VARIABLES
    active_research_sessions,  \* the registry: session id -> the call whose ResearchState it holds
    clock,                     \* the reading datetime.now() gives
    pc,                        \* where each call of research_topic is
    topic,                     \* its topic argument (stripped once the call passed line 573)
    effort,                    \* its effort argument
    session_id,                \* its session_id local
    research_state,            \* its ResearchState
    queries,                   \* the list the running for loop iterates
    idx,                       \* the position of that loop in the list (from 1)
    phase,                     \* which loop dispatched the running search
    frame,                     \* the locals of the running perform_web_search, the errors its
                               \* attempts raised and the delays it slept
    last_search,               \* arguments and result of the last perform_web_search that returned
    failures,                  \* failed search attempts of the call so far
    invoked,                   \* how often the call invoked each collaborator
    ret,                       \* what the call returned
    reflection,                \* the local `reflection` of the while loop, from the reflection
                               \* to the next step of the call (lines 618-623 alone read it)
    unit                       \* a direct call of one helper: its arguments and what it returned

vars == << active_research_sessions, clock, pc, topic, effort, session_id,
           research_state, queries, idx, phase, frame, last_search,
           failures, invoked, ret, reflection, unit >>

(***************************************************************************)
(* ResearchState and its properties.                                       *)
(***************************************************************************)
NewResearchState ==
    [search_count |-> 0, loop_count |-> 0, results |-> << >>,
     all_citations |-> << >>, is_complete |-> FALSE]

max_searches(c) == EFFORT_TIERS[effort[c]].max_searches

max_loops(c) == EFFORT_TIERS[effort[c]].max_research_loops

Max(a, b) == IF a >= b THEN a ELSE b

Min(a, b) == IF a <= b THEN a ELSE b

\* A remainder that is not clamped at zero.
searches_remaining_unclamped(c) == max_searches(c) - research_state[c].search_count

searches_remaining(c) == Max(0, max_searches(c) - research_state[c].search_count)

\* A can_continue that looks at the search budget only.
can_continue_within_searches(c) ==
    research_state[c].search_count < max_searches(c)

can_continue(c) ==
    /\ research_state[c].search_count < max_searches(c)
    /\ research_state[c].loop_count < max_loops(c)
    /\ ~research_state[c].is_complete

(***************************************************************************)
(* generate_session_id: the first 12 hex digits of the md5 of              *)
(* "{topic}_{effort}_{now}".  Equal inputs give equal ids; the model takes *)
(* the digest to tell different inputs apart.                              *)
(***************************************************************************)
generate_session_id(t, e, now) == << t.core, e, now >>

\* active_research_sessions[session_id] = research_state
Register(registry, sid, c) ==
    [i \in DOMAIN registry \cup {sid} |-> IF i = sid THEN c ELSE registry[i]]

\* A cleanup that leaves the entry in place.
CleanupSkipped(registry, sid) == registry

\* if session_id in active_research_sessions: del active_research_sessions[session_id]
Cleanup(registry, sid) ==
    [i \in DOMAIN registry \ {sid} |-> registry[i]]

(***************************************************************************)
(* The texts research_topic returns, by their parts.                       *)
(***************************************************************************)
Part(name, text, n, items) == [part |-> name, text |-> text, n |-> n, items |-> items]

NoReturn == [kind |-> NoValue, parts |-> << >>]

\* "Error: Research topic cannot be empty."
EmptyTopicError == [kind |-> "error_empty_topic", parts |-> << >>]

\* f"Research failed due to an error: {str(e)}. Please try again or contact support."
ResearchFailed(e) ==
    [kind |-> "failed", parts |-> << Part("error_text", e, 0, << >>) >>]

(***************************************************************************)
(* generate_search_queries.  The collaborator's outcome is an exception    *)
(* or a list of n queries; SearchQueryList and SearchQuery validate what   *)
(* is built, and a validation error is an exception like any other.        *)
(***************************************************************************)
SearchQueryValid(q) == q.len >= MinQueryLength /\ q.len <= MaxQueryLength

\* A SearchQueryList without its max_items.
SearchQueryListValidNonEmpty(qs) == Len(qs) >= MinQueryItems

SearchQueryListValid(qs) == Len(qs) >= MinQueryItems /\ Len(qs) <= MaxQueryItems

\* The lengths of the lists the collaborator answers a request for
\* num_queries queries with: the number asked for, and the edges of what
\* SearchQueryList accepts, from both sides.
GenerationLengths(num_queries) ==
    {MinQueryItems - 1, MinQueryItems, num_queries, MaxQueryItems, MaxQueryItems + 1}

GenerationOutcomes(num_queries) ==
    {[kind |-> "error", n |-> 0]}
        \cup {[kind |-> "list", n |-> n] : n \in GenerationLengths(num_queries)}

GeneratedQueries(n) == [i \in 1..n |-> Query("generated", i, MinQueryLength + i)]

fallback_queries(t) ==
    << Query("topic", 1, t.core),
       Query("recent", 2, t.core + RecentSuffixLength) >>

\* The result: the list returned, or raised = TRUE when the fallback itself
\* raises (a SearchQuery of the fallback fails validation).
generate_search_queries(t, num_queries, outcome) ==
    IF outcome.kind = "list" /\ SearchQueryListValid(GeneratedQueries(outcome.n))
    THEN [raised |-> FALSE, queries |-> GeneratedQueries(outcome.n)]
    ELSE IF \A i \in 1..Len(fallback_queries(t)) : SearchQueryValid(fallback_queries(t)[i])
         THEN [raised |-> FALSE,
               queries |-> SubSeq(fallback_queries(t), 1,
                                  Min(num_queries, Len(fallback_queries(t))))]
         ELSE [raised |-> TRUE, queries |-> << >>]

(***************************************************************************)
(* perform_web_search.                                                     *)
(***************************************************************************)
NoFrame ==
    [query |-> Query(NoValue, 0, 0), search_id |-> 0, attempt |-> 0,
     errors |-> << >>, delays |-> << >>]

\* The content of a SearchResult: what kind of text it is, the query and
\* the error it names, and the short urls of its "**Sources:**" block.
Content(kind, q, e, markers) ==
    [kind |-> kind, query |-> q, error |-> e, markers |-> markers]

SearchResult(content, citations, q, sid) ==
    [content |-> content, citations |-> citations, query_used |-> q, search_id |-> sid]

\* A url, by what urlparse finds in it.
Url(scheme, netloc) == [scheme |-> scheme, netloc |-> netloc]

\* A title, by its length and by how many of its characters
\* re.sub(r'\s+', ' ', title).strip() removes.
Title(length, removed) == [length |-> length, removed |-> removed, text |-> TRUE]

\* The title of a web part whose title attribute is None: the attribute
\* exists, so that getattr(chunk.web, 'title', 'Unknown Source') returns
\* None and not its default.
NoTitle == [length |-> 0, removed |-> 0, text |-> FALSE]

\* A grounding chunk: whether it has a web part, whether that has a uri,
\* and the uri and title it carries.
Chunk(web, uri, url, title) == [web |-> web, uri |-> uri, url |-> url, title |-> title]

\* all([result.scheme, result.netloc])
validate_url(url) == url.scheme # "" /\ url.netloc # ""

\* if len(title) > 100: title = title[:97] + "..."
MaxTitleLength == 100
TruncatedTitleLength == 97
EllipsisLength == 3

CleanTitle(title) ==
    IF title.length - title.removed > MaxTitleLength
    THEN [length |-> TruncatedTitleLength + EllipsisLength, ellipsis |-> TRUE]
    ELSE [length |-> title.length - title.removed, ellipsis |-> FALSE]

CitationSegment(url, short_url, title) ==
    [url |-> url, short_url |-> short_url, title |-> title]

\* for i, chunk in enumerate(grounding_chunks): the chunks from position i
\* (counted from 0) on; short_url is f"[{search_id}-{i}]".  re.sub on a
\* title that is not a string raises TypeError (line 235) inside the try of
\* line 229, and the handler of lines 246-248 goes on to the next chunk.
RECURSIVE ResolveFrom(_, _, _)
ResolveFrom(grounding_chunks, search_id, i) ==
    IF grounding_chunks = << >> THEN << >>
    ELSE LET chunk == Head(grounding_chunks)
             rest == ResolveFrom(Tail(grounding_chunks), search_id, i + 1)
         IN  IF chunk.web /\ chunk.uri /\ validate_url(chunk.url) /\ chunk.title.text
             THEN << CitationSegment(chunk.url, << search_id, i >>,
                                     CleanTitle(chunk.title)) >> \o rest
             ELSE rest

resolve_urls(grounding_chunks, search_id) == ResolveFrom(grounding_chunks, search_id, 0)

\* insert_citation_markers: the short urls listed under "**Sources:**".
CitationMarkers(citations) == [i \in 1..Len(citations) |-> citations[i].short_url]

\* What the search collaborator finds for a query: the web does not
\* change during a run, so a query determines its grounding chunks.  The
\* first two generated queries, the first follow-up query and the topic
\* query are grounded; every other response has no grounding metadata.
\* The chunks cover a good chunk, a chunk without web part, one without
\* uri, one whose uri has no scheme, a long title, and the same url found
\* twice by one query and by different queries.
GroundingChunks(q) ==
    CASE q.kind = "generated" /\ q.i = 1 ->
             << Chunk(TRUE, TRUE, Url("https", "a.org"), Title(20, 2)),
                Chunk(FALSE, FALSE, Url("", ""), Title(0, 0)),
                Chunk(TRUE, TRUE, Url("https", "b.org"), Title(120, 5)) >>
      [] q.kind = "generated" /\ q.i = 2 ->
             << Chunk(TRUE, TRUE, Url("", "c.org"), Title(10, 0)),
                Chunk(TRUE, TRUE, Url("https", "b.org"), Title(101, 1)) >>
      [] q.kind = "followup" /\ q.i = 1 ->
             << Chunk(TRUE, TRUE, Url("https", "a.org"), Title(20, 2)),
                Chunk(TRUE, TRUE, Url("https", "a.org"), Title(20, 2)) >>
      [] q.kind = "topic" ->
             << Chunk(TRUE, FALSE, Url("", ""), Title(0, 0)),
                Chunk(TRUE, TRUE, Url("http", "d.org"), Title(104, 3)) >>
      [] OTHER -> << >>

\* The SearchResult of a successful attempt (lines 356-380).
SuccessResult(f, grounding_chunks) ==
    LET citations == resolve_urls(grounding_chunks, f.search_id)
    IN  SearchResult(Content("found", f.query, << >>, CitationMarkers(citations)),
                     citations, f.query, f.search_id)

\* A final fallback that labels its result with the attempt number.
DegradedResultWithAttemptAsId(f, e) ==
    SearchResult(Content("search_failed", f.query, e, << >>), << >>, f.query, f.attempt)

\* The SearchResult of the final fallback (lines 386-391).
DegradedResult(f, e) ==
    SearchResult(Content("search_failed", f.query, e, << >>), << >>, f.query, f.search_id)

\* A final-attempt test that is off by one: `if attempt == max_retries`.
IsFinalAttemptOffByOne(attempt, max_retries) == attempt = max_retries

\* if attempt == max_retries - 1
IsFinalAttempt(attempt, max_retries) == attempt = max_retries - 1

\* A backoff that sleeps one second after every failed attempt.
BackoffDelayFixed(attempt) == 1

\* await asyncio.sleep(2 ** attempt)
BackoffDelay(attempt) == 2 ^ attempt

(***************************************************************************)
(* reflect_on_research.  The collaborator's outcome is an exception or a   *)
(* reflection; ResearchReflection validates it (at most 5 follow-ups).     *)
(***************************************************************************)
\* The numbers of follow-up queries the collaborator proposes: none, and
\* the edge of what ResearchReflection accepts, from both sides.
FollowUpLengths == {0, MaxFollowUpItems, MaxFollowUpItems + 1}

ReflectionOutcomes ==
    {[kind |-> "error", sufficient |-> FALSE, confidence |-> 0, k |-> 0]}
        \cup {[kind |-> "reflection", sufficient |-> s, confidence |-> x, k |-> k] :
                 s \in BOOLEAN, x \in Confidences, k \in FollowUpLengths}

Reflection(sufficient, follow_ups, confidence, asked) ==
    [is_sufficient |-> sufficient, follow_up_queries |-> follow_ups,
     confidence_score |-> confidence, asked |-> asked]

\* No reflection at hand.
NoReflection == Reflection(FALSE, << >>, -1, FALSE)

FollowUpQueries(k) == [i \in 1..k |-> Query("followup", i, MinQueryLength + i)]

\* len(current_results) >= 3 in the conservative fallback
FallbackSufficientResults == 3

\* A reflection that asks the collaborator about an empty history too.
reflect_on_research_unguarded(t, current_results, outcome) ==
    IF outcome.kind = "reflection" /\ outcome.k <= MaxFollowUpItems
    THEN Reflection(outcome.sufficient, FollowUpQueries(outcome.k),
                    outcome.confidence, TRUE)
    ELSE Reflection(Len(current_results) >= FallbackSufficientResults,
                    << Query("additional", 1, t.core + AdditionalSuffixLength) >>,
                    50, TRUE)

\* A conservative fallback that counts only the results that found something.
reflect_on_research_found_only(t, current_results, outcome) ==
    IF current_results = << >>
    THEN Reflection(FALSE, << Query("topic", 1, t.core) >>, 0, FALSE)
    ELSE IF outcome.kind = "reflection" /\ outcome.k <= MaxFollowUpItems
         THEN Reflection(outcome.sufficient, FollowUpQueries(outcome.k),
                         outcome.confidence, TRUE)
         ELSE Reflection(Cardinality({i \in 1..Len(current_results) :
                                         current_results[i].content.kind = "found"})
                             >= FallbackSufficientResults,
                         << Query("additional", 1, t.core + AdditionalSuffixLength) >>,
                         50, TRUE)

\* asked: whether the collaborator was invoked.
reflect_on_research(t, current_results, outcome) ==
    IF current_results = << >>
    THEN Reflection(FALSE, << Query("topic", 1, t.core) >>, 0, FALSE)
    ELSE IF outcome.kind = "reflection" /\ outcome.k <= MaxFollowUpItems
         THEN Reflection(outcome.sufficient, FollowUpQueries(outcome.k),
                         outcome.confidence, TRUE)
         ELSE Reflection(Len(current_results) >= FallbackSufficientResults,
                         << Query("additional", 1, t.core + AdditionalSuffixLength) >>,
                         50, TRUE)

(***************************************************************************)
(* finalize_research_answer.                                               *)
(***************************************************************************)
SynthesisOutcomes == {"text", "error"}

\* A collection that never records the urls it has seen.
RECURSIVE UniqueCitationsUnseen(_, _, _, _)
UniqueCitationsUnseen(results, r, k, seen_urls) ==
    IF r > Len(results) THEN << >>
    ELSE IF k > Len(results[r].citations)
         THEN UniqueCitationsUnseen(results, r + 1, 1, seen_urls)
         ELSE IF results[r].citations[k].url \in seen_urls
              THEN UniqueCitationsUnseen(results, r, k + 1, seen_urls)
              ELSE << results[r].citations[k] >>
                       \o UniqueCitationsUnseen(results, r, k + 1, seen_urls)

\* Collect all unique citations (lines 476-483): the two for loops, at
\* citation k of result r, with the urls seen so far.
RECURSIVE UniqueCitations(_, _, _, _)
UniqueCitations(results, r, k, seen_urls) ==
    IF r > Len(results) THEN << >>
    ELSE IF k > Len(results[r].citations)
         THEN UniqueCitations(results, r + 1, 1, seen_urls)
         ELSE IF results[r].citations[k].url \in seen_urls
              THEN UniqueCitations(results, r, k + 1, seen_urls)
              ELSE << results[r].citations[k] >>
                       \o UniqueCitations(results, r, k + 1,
                                          seen_urls \cup {results[r].citations[k].url})

\* A finalize_research_answer without the test of lines 467-468.
finalize_research_answer_unguarded(t, results, e, outcome) ==
    IF outcome = "text"
    THEN [kind |-> "answer",
          parts |-> << Part("synthesis", NoValue, 0, << >>),
                       Part("footer", e, Len(results), << >>) >>]
    ELSE [kind |-> "summary",
          parts |-> << Part("summary_header", NoValue, t.core, << >>),
                       Part("combined_research", NoValue, Len(results), << >>) >>]

finalize_research_answer(t, results, e, outcome) ==
    IF results = << >>
    THEN [kind |-> "no_results",
          parts |-> << Part("no_results", NoValue, t.core, << >>) >>]
    ELSE IF outcome = "text"
         THEN LET unique_citations == UniqueCitations(results, 1, 1, {})
              IN  [kind |-> "answer",
                   parts |->
                       << Part("synthesis", NoValue, 0, << >>) >>
                       \o (IF unique_citations # << >>
                           THEN << Part("sources", NoValue, 0, unique_citations) >>
                           ELSE << >>)
                       \o << Part("footer", e, Len(results), << >>) >>]
         ELSE [kind |-> "summary",
               parts |->
                   << Part("summary_header", NoValue, t.core, << >>),
                      Part("combined_research", NoValue, Len(results),
                           [i \in 1..Len(results) |-> results[i].content]) >>]

NoSearch ==
    [query |-> Query(NoValue, 0, 0), search_id |-> 0, attempts |-> 0, errors |-> << >>,
     delays |-> << >>,
     result |-> SearchResult(Content(NoValue, Query(NoValue, 0, 0), << >>, << >>),
                             << >>, Query(NoValue, 0, 0), 0)]

NoInvocations == [generate |-> 0, search |-> 0, reflect |-> 0, synthesize |-> 0]

(***************************************************************************)
(* Direct calls of the helpers, as the tests make them: a helper, its      *)
(* arguments, what its collaborator does, and what the helper returned.    *)
(***************************************************************************)
NoOut == [kind |-> NoValue]

NoUnit ==
    [fn |-> NoValue, topic |-> Topic(0, 0, 0), results |-> << >>, num_queries |-> 0,
     effort |-> NoValue, outcome |-> [kind |-> NoValue], out |-> NoOut]

\* The topics research_topic passes on: stripped and not blank.
PassedTopics == {Strip(t) : t \in {u \in Topics : ~(Strip(u).core = 0)}}

\* The queries of the results of a history.
HistoryQueries ==
    {GeneratedQueries(2)[1], GeneratedQueries(2)[2], FollowUpQueries(1)[1]}

\* The result perform_web_search(q, search_id) returns, found at the first
\* attempt or degraded after the last.
HistoryResult(q, search_id, found) ==
    IF found
    THEN SuccessResult([NoFrame EXCEPT !.query = q, !.search_id = search_id],
                       GroundingChunks(q))
    ELSE DegradedResult([NoFrame EXCEPT !.query = q, !.search_id = search_id,
                                        !.attempt = DefaultMaxRetries - 1],
                        SearchError(DefaultMaxRetries - 1))

\* The result histories of at most MaxHistory searches, with the search
\* ids research_topic gives them.
ResultHistories ==
    UNION {{[i \in 1..n |-> HistoryResult(h[i][1], i - 1, h[i][2])] :
               h \in [1..n -> HistoryQueries \X BOOLEAN]} : n \in 0..MaxHistory}

GenerateCalls ==
    {[fn |-> "generate_search_queries", topic |-> t, results |-> << >>,
      num_queries |-> EFFORT_TIERS[e].initial_queries, effort |-> e,
      outcome |-> o, out |-> NoOut] :
        t \in PassedTopics, e \in Efforts,
        o \in UNION {GenerationOutcomes(EFFORT_TIERS[x].initial_queries) : x \in Efforts}}

ReflectCalls ==
    {[fn |-> "reflect_on_research", topic |-> t, results |-> r, num_queries |-> 0,
      effort |-> e, outcome |-> o, out |-> NoOut] :
        t \in PassedTopics, r \in ResultHistories, e \in {"medium"},
        o \in ReflectionOutcomes}

FinalizeCalls ==
    {[fn |-> "finalize_research_answer", topic |-> t, results |-> r, num_queries |-> 0,
      effort |-> e, outcome |-> [kind |-> o], out |-> NoOut] :
        t \in PassedTopics, r \in ResultHistories, e \in Efforts,
        o \in SynthesisOutcomes}

\* ResearchState objects as the tests build them, with counters at, below
\* and beyond the ceilings of the tiers.
CounterValues(ceilings) ==
    {0} \cup UNION {{n - 1, n, n + 1} : n \in ceilings}

ResearchStates ==
    {[search_count |-> n, loop_count |-> l, results |-> << >>,
      all_citations |-> << >>, is_complete |-> b] :
        n \in CounterValues({EFFORT_TIERS[e].max_searches : e \in Efforts}),
        l \in CounterValues({EFFORT_TIERS[e].max_research_loops : e \in Efforts}),
        b \in BOOLEAN}

\* A read of the properties searches_remaining and can_continue.
PropertyRead == [fn |-> "ResearchState", out |-> NoOut]

\* The grounding chunks resolve_urls is called with directly: lists of at
\* most MaxChunks chunks, each a good chunk (two urls, one with a long
\* title), a chunk without web part, a web part without uri, a uri without
\* scheme, a uri without host, or a good uri whose title is None.
MaxChunks == 3

ChunkKinds ==
    {Chunk(TRUE, TRUE, Url("https", "a.org"), Title(20, 2)),
     Chunk(TRUE, TRUE, Url("https", "b.org"), Title(120, 5)),
     Chunk(FALSE, FALSE, Url("", ""), Title(0, 0)),
     Chunk(TRUE, FALSE, Url("", ""), Title(0, 0)),
     Chunk(TRUE, TRUE, Url("", "c.org"), Title(10, 0)),
     Chunk(TRUE, TRUE, Url("https", ""), Title(10, 0)),
     Chunk(TRUE, TRUE, Url("https", "e.org"), NoTitle)}

ChunkLists == UNION {[1..n -> ChunkKinds] : n \in 0..MaxChunks}

SearchIds == {0, 1}

ResolveCalls ==
    {[fn |-> "resolve_urls", grounding_chunks |-> cs, search_id |-> sid, out |-> NoOut] :
        cs \in ChunkLists, sid \in SearchIds}

Init ==
    /\ active_research_sessions = << >>
    /\ clock = 0
    /\ pc = [c \in Calls |-> IF c \in IssuedCalls THEN "idle" ELSE "absent"]
    /\ topic = [c \in Calls |-> Topic(0, 0, 0)]
    /\ effort = [c \in Calls |-> NoValue]
    /\ session_id = [c \in Calls |-> << >>]
    /\ research_state = [c \in Calls |-> NewResearchState]
    /\ queries = [c \in Calls |-> << >>]
    /\ idx = [c \in Calls |-> 0]
    /\ phase = [c \in Calls |-> NoValue]
    /\ frame = [c \in Calls |-> NoFrame]
    /\ last_search = [c \in Calls |-> NoSearch]
    /\ failures = [c \in Calls |-> 0]
    /\ invoked = [c \in Calls |-> NoInvocations]
    /\ ret = [c \in Calls |-> NoReturn]
    /\ reflection = [c \in Calls |-> NoReflection]
    /\ unit = NoUnit

(***************************************************************************)
(* research_topic.                                                         *)
(***************************************************************************)
\* An empty-topic check that forgets to strip: `if not topic`.
IsBlankUnstripped(t) == TopicLength(t) = 0

\* if not topic.strip()
IsBlank(t) == Strip(t).core = 0

\* A controller that charges the budget per attempt, not per query.
RecordSearchPerAttempt(c, result) ==
    [research_state[c] EXCEPT
        !.results = Append(@, result),
        !.all_citations = @ \o result.citations,
        !.search_count = @ + frame[c].attempt + 1]

\* A controller that does not charge the budget for a degraded result.
RecordSearchUnlessDegraded(c, result) ==
    [research_state[c] EXCEPT
        !.results = Append(@, result),
        !.all_citations = @ \o result.citations,
        !.search_count = IF result.content.kind = "search_failed" THEN @ ELSE @ + 1]

\* A controller that keeps only the latest result.
RecordSearchLatestOnly(c, result) ==
    [research_state[c] EXCEPT
        !.results = << result >>,
        !.all_citations = @ \o result.citations,
        !.search_count = @ + 1]

\* Lines 601-603 and 634-636: the controller records the result of a search.
RecordSearch(c, result) ==
    [research_state[c] EXCEPT
        !.results = Append(@, result),
        !.all_citations = @ \o result.citations,
        !.search_count = @ + 1]

\* A dispatch that passes the loop's own index as the search id.
DispatchIdFromLoopIndex(c) == idx[c] - 1

\* The search_id argument of a dispatch: research_state.search_count.
DispatchId(c) == research_state[c].search_count

\* A while loop that only looks at the search budget.
LoopGuardSearchBudgetOnly(c) ==
    /\ research_state[c].search_count < max_searches(c)
    /\ ~research_state[c].is_complete

\* while research_state.can_continue and research_state.loop_count < research_state.max_loops
LoopGuard(c) == can_continue(c) /\ research_state[c].loop_count < max_loops(c)

\* An exit test that takes the threshold itself for enough: `>= 0.8`.
DeemedSufficientAtThreshold(refl) ==
    refl.is_sufficient \/ refl.confidence_score >= ConfidenceThreshold

\* reflection.is_sufficient or reflection.confidence_score > 0.8
DeemedSufficient(refl) ==
    refl.is_sufficient \/ refl.confidence_score > ConfidenceThreshold

\* A while loop that forgets to count its iterations.
NextLoopCountStuck(n) == n

\* research_state.loop_count += 1
NextLoopCount(n) == n + 1

\* Lines 570-583: the empty-topic check, the session id, the registration.
Start(c) ==
    /\ pc[c] = "idle"
    /\ \E t \in Topics, e \in Efforts :
        /\ effort' = [effort EXCEPT ![c] = e]
        /\ IF IsBlank(t)
           THEN /\ topic' = [topic EXCEPT ![c] = t]
                /\ ret' = [ret EXCEPT ![c] = EmptyTopicError]
                /\ pc' = [pc EXCEPT ![c] = "done"]
                /\ UNCHANGED << active_research_sessions, clock, session_id, research_state >>
           ELSE /\ topic' = [topic EXCEPT ![c] = Strip(t)]
                /\ session_id' = [session_id EXCEPT
                                     ![c] = generate_session_id(Strip(t), e, clock)]
                /\ research_state' = [research_state EXCEPT ![c] = NewResearchState]
                /\ active_research_sessions' =
                       Register(active_research_sessions,
                                generate_session_id(Strip(t), e, clock), c)
                /\ pc' = [pc EXCEPT ![c] = "generate"]
                /\ \/ clock' = clock
                   \/ /\ \E d \in Calls : pc[d] = "idle" /\ d # c
                      /\ clock' = clock + 1
                /\ UNCHANGED ret
    /\ UNCHANGED << queries, idx, phase, frame, last_search, failures, invoked >>
    /\ UNCHANGED << reflection, unit >>

\* Lines 653-657: the handler of an exception that reaches research_topic.
SessionFatal(c, e) ==
    /\ active_research_sessions' = Cleanup(active_research_sessions, session_id[c])
    /\ ret' = [ret EXCEPT ![c] = ResearchFailed(e)]
    /\ pc' = [pc EXCEPT ![c] = "done"]

\* Lines 585-589: phase 1, the initial queries.
GenerateQueries(c) ==
    /\ pc[c] = "generate"
    /\ \E outcome \in GenerationOutcomes(EFFORT_TIERS[effort[c]].initial_queries) :
        LET r == generate_search_queries(topic[c],
                     EFFORT_TIERS[effort[c]].initial_queries, outcome)
        IN  IF r.raised
            THEN /\ SessionFatal(c, "validation_error")
                 /\ UNCHANGED << queries, idx >>
            ELSE /\ queries' = [queries EXCEPT ![c] = r.queries]
                 /\ idx' = [idx EXCEPT ![c] = 1]
                 /\ pc' = [pc EXCEPT ![c] = "initial"]
                 /\ UNCHANGED << active_research_sessions, ret >>
    /\ invoked' = [invoked EXCEPT ![c].generate = @ + 1]
    /\ UNCHANGED << clock, topic, effort, session_id, research_state, phase,
                    frame, last_search, failures >>
    /\ UNCHANGED << reflection, unit >>

\* The head of a for loop over queries (lines 592-599 and 625-632): leave
\* the loop when the list is exhausted or can_continue is false, else call
\* perform_web_search(query, research_state.search_count).
ForQueries(c, loop, after) ==
    /\ pc[c] = loop
    /\ IF idx[c] > Len(queries[c]) \/ ~can_continue(c)
       THEN /\ pc' = [pc EXCEPT ![c] = after]
            /\ UNCHANGED << phase, frame >>
       ELSE /\ frame' = [frame EXCEPT ![c] =
                            [query |-> queries[c][idx[c]], search_id |-> DispatchId(c),
                             attempt |-> 0, errors |-> << >>, delays |-> << >>]]
            /\ phase' = [phase EXCEPT ![c] = loop]
            /\ pc' = [pc EXCEPT ![c] = "search"]
    /\ UNCHANGED << active_research_sessions, clock, topic, effort, session_id,
                    research_state, queries, idx, last_search, failures, invoked, ret >>
    /\ reflection' = [reflection EXCEPT ![c] = NoReflection]
    /\ UNCHANGED unit

\* Lines 592-599: phase 2, the for loop over the initial queries.
InitialSearch(c) ==
    /\ pc[c] = "initial"
    /\ ForQueries(c, "initial", "loop")

\* Lines 625-632: the for loop over the follow-up queries.
FollowUpSearch(c) ==
    /\ pc[c] = "followup"
    /\ ForQueries(c, "followup", "loop")

\* A server that keeps one ResearchState object for all of its sessions.
RecordInSharedState(c, result) == [d \in Calls |-> RecordSearch(c, result)]

\* research_state is a local of the call (line 580): recording a result
\* changes the ResearchState object of this call.
RecordInSession(c, result) == [research_state EXCEPT ![c] = RecordSearch(c, result)]

\* perform_web_search returns `result` to the loop that called it, which
\* records it and goes to its next query.
SearchReturns(c, result, errors) ==
    /\ research_state' = RecordInSession(c, result)
    /\ last_search' = [last_search EXCEPT ![c] =
                          [query |-> frame[c].query, search_id |-> frame[c].search_id,
                           attempts |-> frame[c].attempt + 1, errors |-> errors,
                           delays |-> frame[c].delays, result |-> result]]
    /\ idx' = [idx EXCEPT ![c] = @ + 1]
    /\ pc' = [pc EXCEPT ![c] = phase[c]]
    /\ frame' = [frame EXCEPT ![c] = NoFrame]

\* Lines 346-380: an attempt of perform_web_search succeeds.
SearchSucceeds(c) ==
    /\ pc[c] = "search"
    /\ SearchReturns(c, SuccessResult(frame[c], GroundingChunks(frame[c].query)),
                     frame[c].errors)
    /\ invoked' = [invoked EXCEPT ![c].search = @ + 1]
    /\ UNCHANGED << active_research_sessions, clock, topic, effort, session_id,
                    queries, phase, failures, ret >>
    /\ UNCHANGED << reflection, unit >>

\* Lines 382-392: an attempt of perform_web_search fails with exception e.
SearchFails(c) ==
    /\ pc[c] = "search"
    /\ failures[c] < MaxFailures
    /\ LET e == SearchError(frame[c].attempt)
       IN
        IF IsFinalAttempt(frame[c].attempt, DefaultMaxRetries)
        THEN SearchReturns(c, DegradedResult(frame[c], e), Append(frame[c].errors, e))
        ELSE /\ frame' = [frame EXCEPT
                           ![c].errors = Append(@, e),
                           ![c].delays = Append(@, BackoffDelay(frame[c].attempt))]
             /\ pc' = [pc EXCEPT ![c] = "backoff"]
             /\ UNCHANGED << research_state, last_search, idx >>
    /\ failures' = [failures EXCEPT ![c] = @ + 1]
    /\ invoked' = [invoked EXCEPT ![c].search = @ + 1]
    /\ UNCHANGED << active_research_sessions, clock, topic, effort, session_id,
                    queries, phase, ret >>
    /\ UNCHANGED << reflection, unit >>

\* Line 392 and the next iteration of line 345: the sleep ends.
BackoffElapsed(c) ==
    /\ pc[c] = "backoff"
    /\ frame' = [frame EXCEPT ![c].attempt = @ + 1]
    /\ pc' = [pc EXCEPT ![c] = "search"]
    /\ UNCHANGED << active_research_sessions, clock, topic, effort, session_id,
                    research_state, queries, idx, phase, last_search, failures,
                    invoked, ret >>
    /\ UNCHANGED << reflection, unit >>

\* The caller cancels the task while it sleeps at line 392: the sleep raises
\* asyncio.CancelledError, a BaseException, which neither the handler of
\* line 382 (it is raised inside that handler) nor the `except Exception`
\* of line 653 catches.
Cancel(c) ==
    /\ pc[c] = "backoff"
    /\ pc' = [pc EXCEPT ![c] = "cancelled"]
    /\ UNCHANGED << active_research_sessions, clock, topic, effort, session_id,
                    research_state, queries, idx, phase, frame, last_search,
                    failures, invoked, ret >>
    /\ UNCHANGED << reflection, unit >>

\* A controller that passes over the first follow-up of the reflection.
follow_up_queries_after_first(c, refl) ==
    SubSeq(refl.follow_up_queries, 2,
           Min(Len(refl.follow_up_queries), searches_remaining(c)))

\* Line 623: reflection.follow_up_queries[:research_state.searches_remaining].
follow_up_queries(c, refl) ==
    SubSeq(refl.follow_up_queries, 1,
           Min(Len(refl.follow_up_queries), searches_remaining(c)))

\* Lines 606-623: the head of the while loop, the reflection, and what it
\* decides.
ReflectLoop(c) ==
    /\ pc[c] = "loop"
    /\ IF ~LoopGuard(c)
       THEN /\ pc' = [pc EXCEPT ![c] = "finalize"]
            /\ reflection' = [reflection EXCEPT ![c] = NoReflection]
            /\ UNCHANGED << research_state, queries, idx, invoked >>
       ELSE \E outcome \in ReflectionOutcomes :
                /\ research_state' = [research_state EXCEPT ![c].loop_count = NextLoopCount(@)]
                /\ reflection' = [reflection EXCEPT ![c] =
                                     reflect_on_research(topic[c],
                                         research_state[c].results, outcome)]
                /\ invoked' = [invoked EXCEPT ![c].reflect =
                                  IF reflection'[c].asked THEN @ + 1 ELSE @]
                /\ IF DeemedSufficient(reflection'[c])
                   THEN /\ pc' = [pc EXCEPT ![c] = "finalize"]
                        /\ UNCHANGED << queries, idx >>
                   ELSE IF reflection'[c].follow_up_queries # << >>
                           /\ searches_remaining(c) > 0
                        THEN /\ queries' = [queries EXCEPT ![c] =
                                             follow_up_queries(c, reflection'[c])]
                             /\ idx' = [idx EXCEPT ![c] = 1]
                             /\ pc' = [pc EXCEPT ![c] = "followup"]
                        ELSE /\ pc' = [pc EXCEPT ![c] = "loop"]
                             /\ UNCHANGED << queries, idx >>
    /\ UNCHANGED << active_research_sessions, clock, topic, effort, session_id,
                    phase, frame, last_search, failures, ret >>
    /\ UNCHANGED unit

\* Lines 638-651: phase 4, the final answer, the cleanup, the return.
Finalize(c) ==
    /\ pc[c] = "finalize"
    /\ \E outcome \in SynthesisOutcomes :
        /\ research_state' = [research_state EXCEPT ![c].is_complete = TRUE]
        /\ ret' = [ret EXCEPT ![c] =
                      finalize_research_answer(topic[c], research_state[c].results,
                                               effort[c], outcome)]
        /\ invoked' = [invoked EXCEPT ![c].synthesize =
                          IF ret'[c].kind = "no_results" THEN @ ELSE @ + 1]
    /\ active_research_sessions' = Cleanup(active_research_sessions, session_id[c])
    /\ pc' = [pc EXCEPT ![c] = "done"]
    /\ UNCHANGED << clock, topic, effort, session_id, queries, idx, phase, frame,
                    last_search, failures >>
    /\ reflection' = [reflection EXCEPT ![c] = NoReflection]
    /\ UNCHANGED unit

Next ==
    \E c \in Calls :
        \/ Start(c)
        \/ GenerateQueries(c)
        \/ InitialSearch(c)
        \/ FollowUpSearch(c)
        \/ SearchSucceeds(c)
        \/ SearchFails(c)
        \/ BackoffElapsed(c)
        \/ Cancel(c)
        \/ ReflectLoop(c)
        \/ Finalize(c)

Spec == Init /\ [][Next]_vars

(***************************************************************************)
(* The event loop runs every task that can run, and every collaborator     *)
(* call and every sleep ends: each call of research_topic keeps taking     *)
(* its steps.  Nothing obliges a caller to start a call or to cancel one.  *)
(***************************************************************************)
Step(c) ==
    \/ GenerateQueries(c)
    \/ InitialSearch(c)
    \/ FollowUpSearch(c)
    \/ SearchSucceeds(c)
    \/ SearchFails(c)
    \/ BackoffElapsed(c)
    \/ ReflectLoop(c)
    \/ Finalize(c)

FairSpec == Spec /\ \A c \in Calls : WF_vars(Step(c))

(***************************************************************************)
(* The helpers called directly.                                            *)
(***************************************************************************)
UnitInit ==
    /\ active_research_sessions = << >>
    /\ clock = 0
    /\ pc = [c \in Calls |-> "absent"]
    /\ topic = [c \in Calls |-> Topic(0, 0, 0)]
    /\ session_id = [c \in Calls |-> << >>]
    /\ queries = [c \in Calls |-> << >>]
    /\ idx = [c \in Calls |-> 0]
    /\ phase = [c \in Calls |-> NoValue]
    /\ frame = [c \in Calls |-> NoFrame]
    /\ last_search = [c \in Calls |-> NoSearch]
    /\ failures = [c \in Calls |-> 0]
    /\ invoked = [c \in Calls |-> NoInvocations]
    /\ ret = [c \in Calls |-> NoReturn]
    /\ reflection = [c \in Calls |-> NoReflection]
    /\ \/ /\ \/ unit \in GenerateCalls
             \/ unit \in ReflectCalls
             \/ unit \in FinalizeCalls
             \/ unit \in ResolveCalls
          /\ effort = [c \in Calls |-> NoValue]
          /\ research_state = [c \in Calls |-> NewResearchState]
       \/ /\ unit = PropertyRead
          /\ \E e \in Efforts, st \in ResearchStates :
                 /\ effort = [c \in Calls |-> IF c \in IssuedCalls THEN e ELSE NoValue]
                 /\ research_state =
                        [c \in Calls |-> IF c \in IssuedCalls THEN st ELSE NewResearchState]

UnitReturns(out) ==
    /\ unit.out = NoOut
    /\ unit' = [unit EXCEPT !.out = out]
    /\ UNCHANGED << active_research_sessions, clock, pc, topic, effort, session_id,
                    research_state, queries, idx, phase, frame, last_search,
                    failures, invoked, ret, reflection >>

CallGenerateSearchQueries ==
    /\ unit.fn = "generate_search_queries"
    /\ UnitReturns(generate_search_queries(unit.topic, unit.num_queries, unit.outcome))

CallReflectOnResearch ==
    /\ unit.fn = "reflect_on_research"
    /\ UnitReturns(reflect_on_research(unit.topic, unit.results, unit.outcome))

CallFinalizeResearchAnswer ==
    /\ unit.fn = "finalize_research_answer"
    /\ UnitReturns(finalize_research_answer(unit.topic, unit.results, unit.effort,
                                            unit.outcome.kind))

\* state.searches_remaining, state.can_continue
ReadResearchStateProperties ==
    /\ unit.fn = "ResearchState"
    /\ \E c \in IssuedCalls :
           UnitReturns([searches_remaining |-> searches_remaining(c),
                        can_continue |-> can_continue(c)])

CallResolveUrls ==
    /\ unit.fn = "resolve_urls"
    /\ UnitReturns([kind |-> "citations",
                    citations |-> resolve_urls(unit.grounding_chunks, unit.search_id)])

UnitNext ==
    \/ CallGenerateSearchQueries
    \/ CallResolveUrls
    \/ CallReflectOnResearch
    \/ CallFinalizeResearchAnswer
    \/ ReadResearchStateProperties

UnitSpec == UnitInit /\ [][UnitNext]_vars

(***************************************************************************)
(* Two calls of research_topic on one event loop.  A task keeps the loop   *)
(* until it suspends, which it does in the sleep of line 392 alone: a call *)
(* takes a step only while every other call is unstarted, asleep or ended. *)
(* The runs are those of low-tier calls with short query lists and few     *)
(* search failures.                                                        *)
(***************************************************************************)
ConcInit ==
    /\ active_research_sessions = << >>
    /\ clock = 0
    /\ pc = [c \in Calls |-> "idle"]
    /\ topic = [c \in Calls |-> Topic(0, 0, 0)]
    /\ effort = [c \in Calls |-> NoValue]
    /\ session_id = [c \in Calls |-> << >>]
    /\ research_state = [c \in Calls |-> NewResearchState]
    /\ queries = [c \in Calls |-> << >>]
    /\ idx = [c \in Calls |-> 0]
    /\ phase = [c \in Calls |-> NoValue]
    /\ frame = [c \in Calls |-> NoFrame]
    /\ last_search = [c \in Calls |-> NoSearch]
    /\ failures = [c \in Calls |-> 0]
    /\ invoked = [c \in Calls |-> NoInvocations]
    /\ ret = [c \in Calls |-> NoReturn]
    /\ reflection = [c \in Calls |-> NoReflection]
    /\ unit = NoUnit

\* The call holds the event loop: it is between two suspensions.
Running(c) == pc[c] \in {"generate", "initial", "search", "loop", "followup", "finalize"}

MayRun(c) == \A d \in Calls \ {c} : ~Running(d)

ConcBounds ==
    \A c \in Calls :
        /\ effort[c] \in {NoValue, "low"}
        /\ Len(queries[c]) <= MaxConcurrentQueries
        /\ failures[c] <= MaxConcurrentFailures

ConcNext ==
    \E c \in Calls :
        \/ MayRun(c) /\ Start(c) /\ ConcBounds'
        \/ MayRun(c) /\ GenerateQueries(c) /\ ConcBounds'
        \/ MayRun(c) /\ InitialSearch(c) /\ ConcBounds'
        \/ MayRun(c) /\ FollowUpSearch(c) /\ ConcBounds'
        \/ MayRun(c) /\ SearchSucceeds(c) /\ ConcBounds'
        \/ MayRun(c) /\ SearchFails(c) /\ ConcBounds'
        \/ MayRun(c) /\ BackoffElapsed(c) /\ ConcBounds'
        \/ MayRun(c) /\ Cancel(c) /\ ConcBounds'
        \/ MayRun(c) /\ ReflectLoop(c) /\ ConcBounds'
        \/ MayRun(c) /\ Finalize(c) /\ ConcBounds'

ConcSpec == ConcInit /\ [][ConcNext]_vars

(***************************************************************************)
(* The claims.                                                             *)
(***************************************************************************)
\* The call c created its session: it passed line 581 of research_topic.
HasSession(c) == session_id[c] # << >>

Degraded(result) == result.content.kind = "search_failed"

\* C1: in every reachable state of research_topic, for every tier and
\* whatever the collaborators did, search_count is at most the tier's
\* max_searches.
C1_SearchCountWithinBudget ==
    \A c \in Calls :
        HasSession(c) =>
            research_state[c].search_count <= EFFORT_TIERS[effort[c]].max_searches

\* A low-tier call finalized with its budget of 10 searches used up, one
\* of them degraded.
C1_Witness ==
    \E c \in Calls :
        /\ pc[c] = "done" /\ ret[c].kind = "answer" /\ effort[c] = "low"
        /\ research_state[c].search_count = EFFORT_TIERS["low"].max_searches
        /\ \E i \in 1..Len(research_state[c].results) :
               Degraded(research_state[c].results[i])

\* C2: in every reachable state of research_topic, loop_count is at most
\* the tier's max_research_loops.
C2_LoopCountWithinBudget ==
    \A c \in Calls :
        HasSession(c) =>
            research_state[c].loop_count <= EFFORT_TIERS[effort[c]].max_research_loops

\* A high-tier call finalized after all of its 5 loops, with follow-up
\* searches done.
C2_Witness ==
    \E c \in Calls :
        /\ pc[c] = "done" /\ effort[c] = "high"
        /\ research_state[c].loop_count = EFFORT_TIERS["high"].max_research_loops
        /\ \E i \in 1..Len(research_state[c].results) :
               research_state[c].results[i].query_used.kind = "followup"

\* C3: when a call of research_topic returns, with an answer or with the
\* failure message of its exception handler, the session id it registered
\* is not in active_research_sessions.
C3_RegistryCleanAtReturn ==
    [][\A c \in Calls :
          (pc[c] # "done" /\ pc'[c] = "done") =>
              session_id'[c] \notin DOMAIN active_research_sessions']_vars

\* A call that registered a session returned the failure message, and its
\* session is gone.
C3_Witness ==
    \E c \in Calls :
        /\ pc[c] = "done" /\ ret[c].kind = "failed" /\ HasSession(c)
        /\ session_id[c] \notin DOMAIN active_research_sessions

\* C4: a call cancelled at a suspension point after it registered its
\* session has removed the session from the registry when it ends.
C4_CancelledSessionRemoved ==
    \A c \in Calls :
        pc[c] = "cancelled" => session_id[c] \notin DOMAIN active_research_sessions

\* The steps one perform_web_search call has left at most: a failed
\* attempt that is not the last takes two (the failure, the end of the
\* sleep), the attempt that returns takes one.
SearchStepsLeft(c) ==
    IF pc[c] = "search" THEN 2 * (DefaultMaxRetries - 1 - frame[c].attempt) + 1
    ELSE IF pc[c] = "backoff" THEN 2 * (DefaultMaxRetries - 1 - frame[c].attempt)
    ELSE 0

\* The steps of one query of a for loop: its dispatch and its search.
QuerySteps == 1 + 2 * (DefaultMaxRetries - 1) + 1

\* The steps the running for loop has left at most, its exit included.
ForStepsLeft(c) ==
    IF pc[c] \in {"initial", "followup"}
    THEN (Len(queries[c]) - idx[c] + 1) * QuerySteps + 1
    ELSE IF pc[c] \in {"search", "backoff"}
         THEN SearchStepsLeft(c) + (Len(queries[c]) - idx[c]) * QuerySteps + 1
         ELSE 0

\* The steps of one iteration of the while loop: the reflection and the
\* for loop over at most 5 follow-up queries.
LoopSteps == 1 + MaxFollowUpItems * QuerySteps + 1

\* The steps the while loop has left at most, its exit and the
\* finalization included.
WhileStepsLeft(c) ==
    (max_loops(c) - research_state[c].loop_count) * LoopSteps + 2

\* The steps the call c has left at most.
StepsLeft(c) ==
    CASE pc[c] = "generate" ->
             1 + MaxQueryItems * QuerySteps + 1 + WhileStepsLeft(c)
      [] pc[c] \in {"initial", "followup", "search", "backoff"} ->
             ForStepsLeft(c) + WhileStepsLeft(c)
      [] pc[c] = "loop" -> WhileStepsLeft(c)
      [] pc[c] = "finalize" -> 1
      [] OTHER -> 0

\* C5: every call of research_topic that created a session ends, for every
\* tier and whatever the collaborators answer, when each collaborator call
\* and each sleep ends: it returns (an answer, or the failure message)
\* unless its caller cancels it; and every step it takes brings it nearer
\* to its end, the while loop having max_research_loops iterations at most.
C5_CallTerminates ==
    /\ \A c \in IssuedCalls : (pc[c] = "generate") ~> (pc[c] \in {"done", "cancelled"})
    /\ [][\A c \in Calls :
             (HasSession(c) /\ pc'[c] # pc[c]) => StepsLeft(c)' < StepsLeft(c)]_vars

\* A high-tier call returned an answer after search failures, a degraded
\* result and all of its loops.
C5_Witness ==
    \E c \in Calls :
        /\ pc[c] = "done" /\ ret[c].kind = "answer" /\ effort[c] = "high"
        /\ failures[c] = MaxFailures
        /\ research_state[c].loop_count = EFFORT_TIERS["high"].max_research_loops

\* C6: a call with an empty or whitespace-only topic returns the error
\* string, creates no registry entry and invokes no collaborator.
C6_EmptyTopicRejected ==
    \A c \in Calls :
        (pc[c] \notin {"idle", "absent"} /\ topic[c].core = 0) =>
            /\ pc[c] = "done"
            /\ ret[c] = EmptyTopicError
            /\ ~HasSession(c)
            /\ \A i \in DOMAIN active_research_sessions :
                   active_research_sessions[i] # c
            /\ invoked[c] = NoInvocations

\* A call with a whitespace-only topic returned the error string.
C6_Witness ==
    \E c \in Calls :
        /\ pc[c] = "done" /\ ret[c] = EmptyTopicError
        /\ topic[c].core = 0 /\ topic[c].lead > 0

\* C7: a failure of the search collaborator never makes perform_web_search
\* raise: every call of it returns a SearchResult whose query_used and
\* search_id are the arguments it was called with, when an attempt
\* succeeded and when all failed, and no call of research_topic whose
\* searches failed ends in the exception handler.
C7_SearchAlwaysReturnsResult ==
    \A c \in Calls :
        /\ last_search[c].attempts > 0 =>
               /\ last_search[c].result.query_used = last_search[c].query
               /\ last_search[c].result.search_id = last_search[c].search_id
               /\ last_search[c].result.content.kind \in {"found", "search_failed"}
        /\ failures[c] > 0 => ret[c].kind # "failed"

\* A follow-up search that was not among the first of its session
\* returned a degraded result.
C7_Witness ==
    \E c \in Calls :
        /\ Degraded(last_search[c].result)
        /\ last_search[c].search_id > DefaultMaxRetries
        /\ last_search[c].query.kind = "followup"

\* C8: perform_web_search calls the search collaborator at most
\* max_retries (3) times for a query; it returns at the first attempt that
\* succeeds; when all attempts fail it returns, after exactly max_retries
\* attempts, a result whose content names the query and the error of the
\* last attempt and whose citations are empty.
C8_RetryCeiling ==
    \A c \in Calls :
        /\ frame[c].attempt < DefaultMaxRetries
        /\ Len(frame[c].errors) <= DefaultMaxRetries
        /\ last_search[c].attempts <= DefaultMaxRetries
        /\ (last_search[c].attempts > 0 /\ ~Degraded(last_search[c].result)) =>
               Len(last_search[c].errors) = last_search[c].attempts - 1
        /\ Degraded(last_search[c].result) =>
               /\ last_search[c].attempts = DefaultMaxRetries
               /\ Len(last_search[c].errors) = DefaultMaxRetries
               /\ last_search[c].result.content.query = last_search[c].query
               /\ last_search[c].result.content.error =
                      last_search[c].errors[DefaultMaxRetries]
               /\ last_search[c].result.content.error =
                      SearchError(DefaultMaxRetries - 1)
               /\ last_search[c].result.citations = << >>

\* A search returned a degraded result after three failed attempts.
C8_Witness ==
    \E c \in Calls :
        /\ Degraded(last_search[c].result)
        /\ last_search[c].attempts = DefaultMaxRetries
        /\ last_search[c].errors =
               << SearchError(0), SearchError(1), SearchError(2) >>

\* C9: every dispatched query adds exactly one to search_count and appends
\* exactly one SearchResult, whether it succeeded at once, after retries or
\* ended degraded; search_count is the number of results after it.
C9_OneUnitPerDispatch ==
    [][\A c \in Calls :
          (research_state'[c].search_count # research_state[c].search_count
              \/ research_state'[c].results # research_state[c].results
              \/ last_search'[c] # last_search[c]) =>
                 /\ research_state'[c].search_count = research_state[c].search_count + 1
                 /\ research_state'[c].results =
                        Append(research_state[c].results, last_search'[c].result)
                 /\ research_state'[c].search_count = Len(research_state'[c].results)]_vars

\* A degraded result, returned after three attempts, was counted once, and
\* the searches after it were counted too.
C9_Witness ==
    \E c \in Calls :
        /\ research_state[c].search_count = Len(research_state[c].results)
        /\ \E i \in 1..(Len(research_state[c].results) - 1) :
               Degraded(research_state[c].results[i])
        /\ invoked[c].search = research_state[c].search_count + DefaultMaxRetries - 1

\* C10: the i-th result of a session, counting from 0, carries search_id
\* i: the ids are strictly increasing in execution order, unique, never
\* reused and never skipped, also after a degraded result.
C10_SearchIdsSequential ==
    \A c \in Calls :
        \A i \in 1..Len(research_state[c].results) :
            research_state[c].results[i].search_id = i - 1

\* A session with initial and follow-up results has a degraded result
\* before its last result.
C10_Witness ==
    \E c \in Calls :
        /\ \E i \in 1..(Len(research_state[c].results) - 1) :
               Degraded(research_state[c].results[i])
        /\ research_state[c].results[Len(research_state[c].results)].query_used.kind
               = "followup"
        /\ pc[c] = "done"

\* The "## Sources" list of a returned text, empty when it has none.
SourcesOf(parts) ==
    IF \E i \in 1..Len(parts) : parts[i].part = "sources"
    THEN parts[CHOOSE i \in 1..Len(parts) : parts[i].part = "sources"].items
    ELSE << >>

\* The places of the citations in a result history: citation k of result r.
CitationPlaces(results) ==
    UNION {{<< r, k >> : k \in 1..Len(results[r].citations)} : r \in 1..Len(results)}

PlaceBefore(p, q) == p[1] < q[1] \/ (p[1] = q[1] /\ p[2] < q[2])

\* Citation x stands at place p of the history, and no earlier place has its url.
FirstSeenAt(results, x, p) ==
    /\ results[p[1]].citations[p[2]] = x
    /\ \A q \in CitationPlaces(results) :
           PlaceBefore(q, p) => results[q[1]].citations[q[2]].url # x.url

\* finalize_research_answer was called directly with a non-empty history,
\* the synthesis collaborator answered, and the helper returned.
AnswerReturned ==
    /\ unit.fn = "finalize_research_answer" /\ unit.out # NoOut
    /\ unit.outcome.kind = "text" /\ unit.results # << >>

\* C11: the citation list finalize_research_answer builds from a result
\* history has at most one entry per url, has every url that occurs in
\* some result, and lists the first occurrence of each url, in the order
\* the urls are first seen (by result, then within the result).
C11_CitationsDeduplicated ==
    AnswerReturned =>
        LET cites == SourcesOf(unit.out.parts)
            places == CitationPlaces(unit.results)
        IN  /\ \A i, j \in 1..Len(cites) : i # j => cites[i].url # cites[j].url
            /\ \A p \in places :
                   \E i \in 1..Len(cites) :
                       cites[i].url = unit.results[p[1]].citations[p[2]].url
            /\ \A i \in 1..Len(cites) :
                   \E p \in places : FirstSeenAt(unit.results, cites[i], p)
            /\ \A i, j \in 1..Len(cites) :
                   i < j => \E p, q \in places :
                                /\ FirstSeenAt(unit.results, cites[i], p)
                                /\ FirstSeenAt(unit.results, cites[j], q)
                                /\ PlaceBefore(p, q)

\* An answer for a history in which a url occurs in two results with
\* different titles and another url twice in one result: the list has two
\* entries for five citations.
C11_Witness ==
    /\ AnswerReturned
    /\ Len(SourcesOf(unit.out.parts)) = 2
    /\ Cardinality(CitationPlaces(unit.results)) = 5
    /\ \E p, q \in CitationPlaces(unit.results) :
           /\ p[1] < q[1]
           /\ unit.results[p[1]].citations[p[2]].url = unit.results[q[1]].citations[q[2]].url
           /\ unit.results[p[1]].citations[p[2]].title # unit.results[q[1]].citations[q[2]].title
    /\ \E p, q \in CitationPlaces(unit.results) :
           /\ p[1] = q[1] /\ p[2] < q[2]
           /\ unit.results[p[1]].citations[p[2]].url = unit.results[q[1]].citations[q[2]].url

\* reflect_on_research was called directly and returned.
ReflectionReturned == unit.fn = "reflect_on_research" /\ unit.out # NoOut

\* C12: reflect_on_research called with an empty result history returns,
\* without invoking the reflection collaborator, is_sufficient = False,
\* confidence_score = 0.0 and the topic as its only follow-up query.
C12_EmptyHistoryReflection ==
    (ReflectionReturned /\ unit.results = << >>) =>
        /\ ~unit.out.asked
        /\ ~unit.out.is_sufficient
        /\ unit.out.confidence_score = 0
        /\ unit.out.follow_up_queries = << Query("topic", 1, unit.topic.core) >>

\* The call with an empty history returned while the collaborator stood
\* ready to report a sufficient research with confidence 0.95.
C12_Witness ==
    /\ ReflectionReturned /\ unit.results = << >>
    /\ unit.outcome.kind = "reflection" /\ unit.outcome.sufficient
    /\ unit.outcome.confidence = 95
    /\ Len(unit.out.follow_up_queries) = 1

\* C13: when the reflection collaborator fails on a non-empty history,
\* reflect_on_research returns a reflection with is_sufficient =
\* (len(results) >= 3), confidence_score 0.5 and exactly one follow-up
\* query; degraded results count among the results.
C13_ConservativeReflection ==
    (ReflectionReturned /\ unit.results # << >> /\ unit.outcome.kind = "error") =>
        /\ unit.out.asked
        /\ unit.out.is_sufficient = (Len(unit.results) >= 3)
        /\ unit.out.confidence_score = 50
        /\ Len(unit.out.follow_up_queries) = 1
        /\ unit.out.follow_up_queries[1].kind = "additional"

\* The collaborator failed on a history of three results of which two are
\* degraded, and the fallback called the research sufficient.
C13_Witness ==
    /\ ReflectionReturned /\ unit.outcome.kind = "error"
    /\ Len(unit.results) = 3
    /\ Cardinality({i \in 1..Len(unit.results) : Degraded(unit.results[i])}) = 2
    /\ unit.out.is_sufficient

\* The reflection gate reported to the call c in the step just taken.
GateReported(c) == reflection[c] # NoReflection

\* C14: once the reflection gate reports is_sufficient = True or a
\* confidence above 0.8, the while loop exits in that iteration, whatever
\* budget remains: the call goes to its finalization, and from there it
\* dispatches no search and requests no reflection any more; after a
\* report of confidence 0.8 exactly with is_sufficient = False the loop
\* goes on, with the follow-up queries or with its next test.
C14_SufficientExitsLoop ==
    /\ [](\A c \in Calls :
            GateReported(c) =>
                IF reflection[c].is_sufficient \/ reflection[c].confidence_score > 80
                THEN pc[c] = "finalize"
                ELSE pc[c] \in {"followup", "loop"})
    /\ [][\A c \in Calls :
             pc[c] \in {"finalize", "done"} =>
                 /\ pc'[c] \in {"finalize", "done"}
                 /\ invoked'[c].search = invoked[c].search
                 /\ invoked'[c].reflect = invoked[c].reflect
                 /\ research_state'[c].results = research_state[c].results]_vars

\* In the first iteration of a high-tier call, with budget for 994
\* searches and four loops left, the gate reported confidence 0.95 with
\* is_sufficient = False, and the call is at its finalization.
C14_Witness ==
    \E c \in Calls :
        /\ GateReported(c) /\ ~reflection[c].is_sufficient
        /\ reflection[c].confidence_score = 95
        /\ effort[c] = "high" /\ research_state[c].loop_count = 1
        /\ research_state[c].search_count = EFFORT_TIERS["high"].initial_queries
        /\ pc[c] = "finalize"

\* generate_search_queries was called directly and returned or raised.
GenerationReturned == unit.fn = "generate_search_queries" /\ unit.out # NoOut

\* C15: when the query-generation collaborator fails,
\* generate_search_queries(topic, count) returns a fallback of count
\* queries derived from the topic, for the count of every tier (2, 4, 6).
C15_FallbackHasCountQueries ==
    (GenerationReturned /\ unit.outcome.kind = "error") =>
        /\ ~unit.out.raised
        /\ Len(unit.out.queries) = unit.num_queries
        /\ \A i \in 1..Len(unit.out.queries) :
               unit.out.queries[i].kind \in {"topic", "recent"}

\* C16: for every topic of 1 to 500 characters after trimming and every
\* tier, no failure of the query-generation, reflection or search
\* collaborator makes research_topic take its session-fatal path (the
\* handler of line 653): the call never returns the failure message.
C16_CollaboratorFailureAbsorbed ==
    \A c \in Calls :
        (HasSession(c) /\ topic[c].core >= 1 /\ topic[c].core <= 500) =>
            ret[c].kind # "failed"

\* C17: in its initial phase research_topic dispatches at most
\* initial_queries searches (2 for low, 4 for medium, 6 for high),
\* whatever list the query-generation collaborator returns: the position
\* of a dispatched initial query, and the number of searches done before
\* the first reflection, are at most initial_queries.
C17_InitialSearchesWithinTier ==
    \A c \in Calls :
        HasSession(c) =>
            /\ (pc[c] \in {"search", "backoff"} /\ phase[c] = "initial") =>
                   idx[c] <= EFFORT_TIERS[effort[c]].initial_queries
            /\ research_state[c].loop_count = 0 =>
                   research_state[c].search_count
                       <= EFFORT_TIERS[effort[c]].initial_queries

\* C18: every text research_topic returns for a non-empty topic on a path
\* that is not session-fatal ends with the run-metadata footer, which
\* names the effort tier and a query count equal to search_count.
C18_ReturnedTextEndsWithFooter ==
    \A c \in Calls :
        (pc[c] = "done" /\ HasSession(c) /\ ret[c].kind # "failed") =>
            /\ ret[c].parts # << >>
            /\ ret[c].parts[Len(ret[c].parts)].part = "footer"
            /\ ret[c].parts[Len(ret[c].parts)].text = effort[c]
            /\ ret[c].parts[Len(ret[c].parts)].n = research_state[c].search_count

\* C19: when the answer-synthesis collaborator fails,
\* finalize_research_answer returns (it does not raise) the contents of
\* the results in execution order, followed by the deduplicated citations
\* accumulated from the results.
C19_SummaryKeepsCitations ==
    (unit.fn = "finalize_research_answer" /\ unit.out # NoOut
         /\ unit.outcome.kind = "error" /\ unit.results # << >>) =>
        /\ \E i \in 1..Len(unit.out.parts) :
               /\ unit.out.parts[i].part = "combined_research"
               /\ unit.out.parts[i].items =
                      [k \in 1..Len(unit.results) |-> unit.results[k].content]
        /\ \A p \in CitationPlaces(unit.results) :
               \E i \in 1..Len(SourcesOf(unit.out.parts)) :
                   SourcesOf(unit.out.parts)[i].url
                       = unit.results[p[1]].citations[p[2]].url
        /\ \A i, j \in 1..Len(SourcesOf(unit.out.parts)) :
               i # j => SourcesOf(unit.out.parts)[i].url # SourcesOf(unit.out.parts)[j].url

\* C20: when an unexpected exception reaches the handler of
\* research_topic, the call returns a generic failure message that names
\* the topic and does not carry the text of the exception.
C20_FailureMessageGeneric ==
    \A c \in Calls :
        ret[c].kind = "failed" =>
            /\ \E i \in 1..Len(ret[c].parts) :
                   ret[c].parts[i].part = "topic" /\ ret[c].parts[i].n = topic[c].core
            /\ \A i \in 1..Len(ret[c].parts) : ret[c].parts[i].part # "error_text"

\* The call c has created its session and has not ended.
InFlight(c) == HasSession(c) /\ pc[c] \notin {"done", "cancelled"}

\* C21: two calls of research_topic whose lifetimes overlap never use the
\* same session id, also when they have the same topic and tier and read
\* the same timestamp: the registry entry of a call in flight is its own,
\* no other call has overwritten or removed it.
C21_SessionIdsCollisionFree ==
    \A c \in Calls :
        InFlight(c) =>
            /\ \A d \in Calls \ {c} : InFlight(d) => session_id[d] # session_id[c]
            /\ session_id[c] \in DOMAIN active_research_sessions
            /\ active_research_sessions[session_id[c]] = c

\* C22: for every ResearchState, searches_remaining is
\* max(0, max_searches - search_count), and can_continue holds exactly
\* when search_count < max_searches, loop_count < max_loops and the state
\* is not complete: it is false as soon as a counter is at its ceiling.
C22_DerivedProperties ==
    (unit.fn = "ResearchState" /\ unit.out # NoOut) =>
        \A c \in IssuedCalls :
            LET tier == EFFORT_TIERS[effort[c]]
                left == tier.max_searches - research_state[c].search_count
            IN  /\ unit.out.searches_remaining = (IF left > 0 THEN left ELSE 0)
                /\ unit.out.can_continue =
                       (/\ research_state[c].search_count < tier.max_searches
                        /\ research_state[c].loop_count < tier.max_research_loops
                        /\ ~research_state[c].is_complete)
                /\ (research_state[c].search_count >= tier.max_searches
                        \/ research_state[c].loop_count >= tier.max_research_loops) =>
                       ~unit.out.can_continue

\* The properties were read of a state that is not complete, whose
\* search_count is beyond the ceiling of its tier and whose loop_count is
\* below: nothing remains, and the research cannot continue.
C22_Witness ==
    /\ unit.fn = "ResearchState" /\ unit.out # NoOut
    /\ \E c \in IssuedCalls :
           /\ effort[c] = "medium" /\ research_state[c].search_count = 101
           /\ research_state[c].loop_count = 2 /\ ~research_state[c].is_complete
           /\ unit.out.searches_remaining = 0 /\ ~unit.out.can_continue

\* C23: on every terminating path of research_topic that created a
\* session, the successful one and the one that ends with a failure,
\* is_complete is set, and it is set once: a call that has returned has a
\* complete session, and no step sets the flag of a session that has it.
C23_CompleteSetAtTermination ==
    /\ [](\A c \in Calls :
            (pc[c] = "done" /\ HasSession(c)) => research_state[c].is_complete)
    /\ [][\A c \in Calls :
             research_state[c].is_complete =>
                 research_state'[c] = research_state[c]]_vars

\* xs is a prefix of ys.
IsPrefix(xs, ys) == Len(xs) <= Len(ys) /\ SubSeq(ys, 1, Len(xs)) = xs

\* C24: in every step of a session search_count and loop_count do not
\* decrease and results is only appended to; once is_complete is true,
\* search_count, loop_count, results and all_citations change no more.
C24_CountersMonotonic ==
    [][\A c \in Calls :
          (HasSession(c) /\ HasSession(c)') =>
              /\ research_state'[c].search_count >= research_state[c].search_count
              /\ research_state'[c].loop_count >= research_state[c].loop_count
              /\ IsPrefix(research_state[c].results, research_state'[c].results)
              /\ research_state[c].is_complete =>
                     /\ research_state'[c].search_count = research_state[c].search_count
                     /\ research_state'[c].loop_count = research_state[c].loop_count
                     /\ research_state'[c].results = research_state[c].results
                     /\ research_state'[c].all_citations
                            = research_state[c].all_citations]_vars

\* A medium-tier call returned its answer: its session is complete after
\* several loops and more searches than the initial ones.
C24_Witness ==
    \E c \in Calls :
        /\ pc[c] = "done" /\ research_state[c].is_complete /\ effort[c] = "medium"
        /\ research_state[c].loop_count = EFFORT_TIERS["medium"].max_research_loops
        /\ research_state[c].search_count > MaxQueryItems
        /\ research_state[c].all_citations # << >>

\* C25: in every reachable state all_citations holds at most one entry per
\* URL.
C25_AllCitationsUniquePerUrl ==
    \A c \in Calls :
        HasSession(c) =>
            \A i, j \in 1..Len(research_state[c].all_citations) :
                research_state[c].all_citations[i].url
                    = research_state[c].all_citations[j].url => i = j

C28_PhasesOrdered ==
    [][\A c \in Calls :
          /\ invoked'[c].search > invoked[c].search =>
                 /\ invoked[c].generate = 1
                 /\ pc[c] = "search"
                 /\ phase[c] = "followup" =>
                        /\ research_state[c].loop_count >= 1
                        /\ invoked[c].reflect = research_state[c].loop_count
          /\ invoked'[c].reflect > invoked[c].reflect =>
                 /\ invoked[c].generate = 1
                 /\ invoked[c].reflect = research_state[c].loop_count
                 /\ research_state'[c].loop_count = research_state[c].loop_count + 1
          /\ invoked'[c].generate > invoked[c].generate =>
                 invoked[c] = NoInvocations
          /\ invoked'[c].synthesize <= 1
          /\ (invoked[c].synthesize >= 1 \/ research_state[c].is_complete) =>
                 invoked'[c] = invoked[c]]_vars

\* A medium-tier session has returned a synthesized answer after follow-up
\* searches in two loop iterations and a third reflection.
C28_Witness ==
    \E c \in Calls :
        /\ pc[c] = "done" /\ effort[c] = "medium"
        /\ invoked[c].generate = 1 /\ invoked[c].synthesize = 1
        /\ invoked[c].reflect = 3
        /\ invoked[c].search > MaxQueryItems

\* C29: every citation resolve_urls returns carries the short url
\* [search_id-index] where index is its zero-based position among the
\* citations of that call: 0, 1, 2, ... without gaps.
C29_ShortUrlIndexAmongAccepted ==
    (unit.fn = "resolve_urls" /\ unit.out # NoOut) =>
        \A k \in 1..Len(unit.out.citations) :
            unit.out.citations[k].short_url = << unit.search_id, k - 1 >>

\* A reference resolve_urls is to accept: it has a URL field, and the URL
\* has a non-empty scheme and a non-empty host.
AcceptedReference(chunk) ==
    chunk.web /\ chunk.uri /\ chunk.url.scheme # "" /\ chunk.url.netloc # ""

\* C30: resolve_urls returns one citation for each accepted reference of
\* its input, in input order, and nothing for the others, whatever
\* references it skipped on the way.
C30_ExactlyAcceptedInOrder ==
    (unit.fn = "resolve_urls" /\ unit.out # NoOut) =>
        LET accepted == SelectSeq(unit.grounding_chunks, AcceptedReference)
        IN  /\ Len(unit.out.citations) = Len(accepted)
            /\ \A k \in 1..Len(accepted) :
                   unit.out.citations[k].url = accepted[k].url

\* The delays of one call of perform_web_search follow the backoff law: the
\* first is 1 second (base * 2^0) and each next is twice the one before.
BackoffLaw(delays) ==
    /\ delays # << >> => delays[1] = 1
    /\ \A k \in 1..(Len(delays) - 1) :
           delays[k + 1] = 2 * delays[k] /\ delays[k] <= delays[k + 1]

\* C31: in perform_web_search the delay after failed attempt n (from 0) is
\* 2^n seconds and the delays of one call are non-decreasing; a delay
\* occurs only between two attempts, so that a call that has made a
\* attempts has slept a - 1 times, and a call sleeps at most
\* max_retries - 1 times.
C31_BackoffDelays ==
    \A c \in Calls :
        /\ BackoffLaw(frame[c].delays) /\ BackoffLaw(last_search[c].delays)
        /\ Len(frame[c].delays) <= DefaultMaxRetries - 1
        /\ Len(last_search[c].delays) <= DefaultMaxRetries - 1
        /\ pc[c] = "search" => Len(frame[c].delays) = frame[c].attempt
        /\ pc[c] = "backoff" =>
               /\ Len(frame[c].delays) = frame[c].attempt + 1
               /\ frame[c].attempt + 1 < DefaultMaxRetries
        /\ last_search[c].attempts > 0 =>
               Len(last_search[c].delays) = last_search[c].attempts - 1

\* A search returned degraded after three attempts, having slept 1 second
\* and then 2 seconds, and not after its last attempt.
C31_Witness ==
    \E c \in Calls :
        /\ Degraded(last_search[c].result)
        /\ last_search[c].attempts = DefaultMaxRetries
        /\ last_search[c].delays = << 1, 2 >>

\* Call c takes the step: its position, its search in progress or its
\* ResearchState changes.
TakesStep(c) ==
    \/ pc'[c] # pc[c]
    \/ frame'[c] # frame[c]
    \/ research_state'[c] # research_state[c]

\* C32: a step of one call of research_topic changes the search_count,
\* loop_count, results, all_citations and is_complete of no other call,
\* nor its queries, its position or its search in progress.
C32_SessionsIsolated ==
    [][\A c \in Calls :
          TakesStep(c) =>
              \A d \in Calls \ {c} :
                  /\ research_state'[d] = research_state[d]
                  /\ queries'[d] = queries[d] /\ idx'[d] = idx[d]
                  /\ pc'[d] = pc[d] /\ frame'[d] = frame[d]]_vars

\* Two sessions are registered at once: one sleeps between two attempts of
\* its first search, the other has recorded a result meanwhile.
C32_Witness ==
    \E c, d \in Calls :
        /\ c # d
        /\ session_id[c] # session_id[d]
        /\ pc[c] = "backoff" /\ research_state[c].search_count = 0
        /\ HasSession(d) /\ research_state[d].search_count > 0
        /\ pc[d] \in {"initial", "search", "backoff", "loop"}

\* The kinds of the queries of the initial phase: generated ones and the
\* two of the fallback.
InitialQueryKinds == {"generated", "topic", "recent"}

\* C33: a follow-up search is in progress only while loop_count is below
\* max_research_loops, so none is dispatched in the iteration that raises
\* loop_count to the ceiling; a low-tier session (one loop) searches in its
\* initial phase only, and every result it has, its search_count many, is
\* the result of an initial query.
C33_NoFollowUpInLastLoop ==
    \A c \in Calls :
        HasSession(c) =>
            /\ (pc[c] \in {"search", "backoff"} /\ phase[c] = "followup") =>
                   research_state[c].loop_count
                       < EFFORT_TIERS[effort[c]].max_research_loops
            /\ effort[c] = "low" =>
                   /\ pc[c] \in {"search", "backoff"} => phase[c] = "initial"
                   /\ Len(research_state[c].results) = research_state[c].search_count
                   /\ \A i \in 1..Len(research_state[c].results) :
                          research_state[c].results[i].query_used.kind
                              \in InitialQueryKinds

\* A low-tier session considers the five follow-ups of its only
\* reflection with loop_count at the ceiling and searches left.
C33_Witness ==
    \E c \in Calls :
        /\ effort[c] = "low" /\ pc[c] = "followup" /\ idx[c] = 1
        /\ Len(queries[c]) = MaxFollowUpItems
        /\ research_state[c].loop_count = EFFORT_TIERS["low"].max_research_loops
        /\ research_state[c].search_count < EFFORT_TIERS["low"].max_searches

\* C34: in every reachable state search_count is at most
\* 10 + 5 * (max_research_loops - 1), the 10 queries a SearchQueryList
\* holds at most and the 5 follow-ups of each reflection but the last; for
\* the tiers medium and high search_count stays below max_searches, and
\* the session never stops for want of searches.
C34_SearchCountBound ==
    \A c \in Calls :
        HasSession(c) =>
            /\ research_state[c].search_count
                   <= MaxQueryItems
                        + MaxFollowUpItems
                            * (EFFORT_TIERS[effort[c]].max_research_loops - 1)
            /\ effort[c] \in {"medium", "high"} =>
                   research_state[c].search_count
                       < EFFORT_TIERS[effort[c]].max_searches

\* A high-tier session returned its answer after 10 initial searches and 5
\* follow-up searches in each of its first four loops.
C34_Witness ==
    \E c \in Calls :
        /\ pc[c] = "done" /\ effort[c] = "high"
        /\ research_state[c].search_count
               = MaxQueryItems
                   + MaxFollowUpItems * (EFFORT_TIERS["high"].max_research_loops - 1)

\* C35: called with an empty result history, finalize_research_answer
\* returns the one-part message that no results were obtained, naming the
\* topic, whatever the synthesis collaborator would have done; a text that
\* shows the collaborator was invoked (its answer, or the summary returned
\* when it raised) comes from a non-empty history only.
C35_NoResultsMessage ==
    (unit.fn = "finalize_research_answer" /\ unit.out # NoOut) =>
        /\ unit.results = << >> =>
               /\ unit.out.kind = "no_results"
               /\ unit.out.parts
                      = << Part("no_results", NoValue, unit.topic.core, << >>) >>
        /\ unit.out.kind \in {"answer", "summary"} => unit.results # << >>
        /\ unit.out.kind \in {"no_results", "answer", "summary"}

\* finalize_research_answer was called directly with an empty history and
\* a synthesis collaborator ready to answer, and returned the message.
C35_Witness ==
    /\ unit.fn = "finalize_research_answer" /\ unit.out # NoOut
    /\ unit.results = << >> /\ unit.outcome.kind = "text"
    /\ unit.out.kind = "no_results"

====
